---- MODULE Spec2Model ----
(***************************************************************************)
(* The egress readiness reconciler (egressReadinessReconciler.Reconcile    *)
(* and previousReady) and the bools helpers, as a state machine.           *)
(*                                                                         *)
(* Strings whose characters the code inspects (Pod names, the ProxyGroup   *)
(* name, IP addresses) are sequences of one-character strings, so that     *)
(* strings.CutPrefix, strconv.Atoi, fmt.Sprintf("%s-%d") and               *)
(* strings.EqualFold are computed character by character.                  *)
(***************************************************************************)
EXTENDS Integers, Sequences, FiniteSets, TLC

\* ------------------------------------------------------------------ bounds

\* The clock readings er.clock.Now() can return are 0..MaxClock.
MaxClock == 1

\* The values handed to bools.Select are 0..MaxVal.
MaxVal == 2

\* The endpoint lists handed to the membership check have at most
\* MaxEndpoints endpoints.
MaxEndpoints == 2

\* ------------------------------------------------------------ string helpers

Digits == <<"0", "1", "2", "3", "4", "5", "6", "7", "8", "9">>

IsDigit(c) == \E i \in 1..10 : Digits[i] = c

DigitVal(c) == (CHOOSE i \in 1..10 : Digits[i] = c) - 1

\* strings.HasPrefix, as used by strings.CutPrefix.
HasPrefix(s, prefix) ==
    /\ Len(s) >= Len(prefix)
    /\ SubSeq(s, 1, Len(prefix)) = prefix

\* strings.CutPrefix(s, prefix): s without the leading prefix; s itself when
\* s does not start with prefix.  The code drops the "found" result.
CutPrefix(s, prefix) ==
    IF HasPrefix(s, prefix) THEN SubSeq(s, Len(prefix) + 1, Len(s)) ELSE s

RECURSIVE DigitsValue(_)
DigitsValue(s) ==
    IF s = <<>> THEN 0
    ELSE 10 * DigitsValue(SubSeq(s, 1, Len(s) - 1)) + DigitVal(s[Len(s)])

\* strconv.Atoi(s): an optional sign, then one or more decimal digits.
\* (The names of the model are too short to overflow an int.)
Atoi(s) ==
    LET signed   == s # <<>> /\ s[1] \in {"+", "-"}
        body     == IF signed THEN Tail(s) ELSE s
        allDigit == body # <<>> /\ \A i \in 1..Len(body) : IsDigit(body[i])
    IN  IF ~allDigit THEN [ok |-> FALSE, val |-> 0]
        ELSE [ok |-> TRUE,
              val |-> IF signed /\ s[1] = "-" THEN 0 - DigitsValue(body)
                      ELSE DigitsValue(body)]

RECURSIVE NatToDigits(_)
NatToDigits(n) ==
    IF n < 10 THEN <<Digits[n + 1]>>
    ELSE NatToDigits(n \div 10) \o <<Digits[(n % 10) + 1]>>

\* The %d verb of fmt.Sprintf.
Itoa(n) == IF n < 0 THEN <<"-">> \o NatToDigits(0 - n) ELSE NatToDigits(n)

Upper == <<"A", "B", "C", "D", "E", "F">>
Lower == <<"a", "b", "c", "d", "e", "f">>

\* Simple case folding of one character (the addresses are hexadecimal).
FoldChar(c) ==
    IF \E i \in 1..6 : Upper[i] = c
    THEN Lower[CHOOSE i \in 1..6 : Upper[i] = c]
    ELSE c

EqualFoldExact(s, t) == s = t

\* strings.EqualFold(s, t).
EqualFold(s, t) ==
    /\ Len(s) = Len(t)
    /\ \A i \in 1..Len(s) : FoldChar(s[i]) = FoldChar(t[i])

\* ------------------------------------------------------------ package bools

CompareReversed(x, y) ==
    CASE x = FALSE /\ y = TRUE -> 1
      [] x = TRUE /\ y = FALSE -> 0 - 1
      [] OTHER -> 0

\* bools.Compare(x, y)
Compare(x, y) ==
    CASE x = FALSE /\ y = TRUE -> 0 - 1
      [] x = TRUE /\ y = FALSE -> 1
      [] OTHER -> 0

SelectFirst(condExpr, trueVal, falseVal) == trueVal

\* bools.Select(condExpr, trueVal, falseVal)
Select(condExpr, trueVal, falseVal) ==
    IF condExpr THEN trueVal ELSE falseVal

\* ------------------------------------------------------------------ the data

\* Pod names.  Eg0 and Eg1 are the members 0 and 1 of the ProxyGroup "eg";
\* Eg01 is the Pod "eg-0-1" (member 1 of a ProxyGroup called "eg-0" in the
\* same namespace); Eg5 and EgX are Pods labelled for "eg" whose names are not
\* "eg-<ordinal>".
PgName == <<"e", "g">>
Eg0    == <<"e", "g", "-", "0">>
Eg1    == <<"e", "g", "-", "1">>
Eg01   == <<"e", "g", "-", "0", "-", "1">>
Eg5    == <<"e", "g", "5">>
EgX    == <<"e", "g", "-", "x">>

PodNames == {Eg0, Eg1, Eg01, Eg5, EgX}

\* The Pods a reconcile request can name.
ReqNames == {Eg0, Eg5, EgX}

\* The Pods whose presence in the store varies.
OptionalPods == {Eg0, Eg1, Eg01}

\* The Pods that serve a health check in the model.
HealthPods == {Eg1, Eg01}

HealthValues == {"200", "503", "neterr"}

\* Pod IP addresses and the same addresses as an EndpointSlice may spell them.
IPOf(n) ==
    CASE n = Eg0  -> <<"f", "d", "a", "0">>
      [] n = Eg1  -> <<"f", "d", "a", "1">>
      [] n = Eg01 -> <<"f", "d", "b", "1">>
      [] n = Eg5  -> <<"f", "d", "a", "5">>
      [] n = EgX  -> <<"f", "d", "a", "c">>

UpperIPOf(n) ==
    CASE n = Eg0  -> <<"F", "D", "A", "0">>
      [] n = Eg1  -> <<"F", "D", "A", "1">>
      [] n = Eg01 -> <<"F", "D", "B", "1">>
      [] n = Eg5  -> <<"F", "D", "A", "5">>
      [] n = EgX  -> <<"F", "D", "A", "C">>

EgressCondType == "tailscale.com/egress-services"

ReadyCond == [Type |-> "Ready", Status |-> "True", LastTransitionTime |-> 0]

\* A Pod of the store; exists = FALSE stands for "no such Pod".
StoredPod(n, e, d) ==
    [exists            |-> e,
     Name              |-> n,
     ParentName        |-> PgName,
     DeletionTimestamp |-> d,
     PodIPs            |-> <<IPOf(n)>>,
     Conditions        |-> <<ReadyCond>>,
     ResourceVersion   |-> 0]

NoPod == [exists |-> FALSE]

\* The keys of the egress services configuration: an encoded
\* (namespace, name) of the ExternalName Service, or a key that does not decode.
KeyA   == <<"default", "a">>
KeyB   == <<"default", "b">>
KeyBad == <<"bad">>

ServiceKeys == {KeyA, KeyB, KeyBad}

\* extNsNameFromClusterSvcName: the namespace and name a key decodes to, or an
\* error and empty strings.
extNsNameFromClusterSvcName(key) ==
    IF Len(key) = 2 THEN [err |-> FALSE, ns |-> key[1], name |-> key[2]]
    ELSE [err |-> TRUE, ns |-> "", name |-> ""]

\* Whether a failed decoding of the key ends the invocation with an error: it
\* is only logged.
DecodeAbortsOnError(d) == d.err

DecodeAborts(d) == FALSE

\* The labels that select a service's EndpointSlice (the ones that vary).
epsLabels(key) ==
    LET d == extNsNameFromClusterSvcName(key)
    IN  <<d.ns, d.name>>

EpsKeys == {epsLabels(k) : k \in ServiceKeys}

NoSlice == [exists |-> FALSE, Endpoints |-> <<>>]

\* An EndpointSlice that lists only member 1: the others are not routed yet.
PartialSlice ==
    [exists |-> TRUE, Endpoints |-> << [Addresses |-> <<IPOf(Eg1)>>] >>]

\* An EndpointSlice that lists every Pod, in upper case after the first.
FullSlice ==
    [exists |-> TRUE,
     Endpoints |-> << [Addresses |-> <<IPOf(Eg1)>>],
                      [Addresses |-> <<>>],
                      [Addresses |-> <<UpperIPOf(Eg01), UpperIPOf(Eg0)>>],
                      [Addresses |-> <<UpperIPOf(Eg5), UpperIPOf(EgX)>>] >>]

SliceChoices(l) ==
    IF l = <<"", "">> THEN {NoSlice, FullSlice}
    ELSE {NoSlice, PartialSlice, FullSlice}

Workers == {"w1", "w2"}

\* reconcile.Result and the error, as the scheduler sees them.
Success == [requeue |-> FALSE, err |-> FALSE]
Requeue == [requeue |-> TRUE, err |-> FALSE]
Failure == [requeue |-> FALSE, err |-> TRUE]

NoResult == [requeue |-> FALSE, err |-> FALSE]

\* What one invocation has done so far (history, for the properties).
Fresh ==
    [had |-> FALSE, cfg |-> FALSE, eps |-> FALSE, sibGet |-> FALSE,
     probe |-> FALSE, update |-> FALSE, applied |-> FALSE, fault |-> FALSE]

VARIABLES
    pods,    \* the Pod store: name -> stored Pod
    eps,     \* the EndpointSlice store: labels -> slice
    cfgs,    \* the egress services configured for the ProxyGroup
    health,  \* what the health check of each Pod answers
    now,     \* er.clock.Now()
    pc,      \* where each invocation is
    req,     \* the Pod name of each invocation's request
    pod,     \* each invocation's copy of the Pod it read
    todo,    \* the configured services an invocation has yet to visit
    sib,     \* the name of the Pod previousReady fetched
    res,     \* the (reconcile.Result, error) an invocation returned
    exit,    \* the return statement an invocation left by
    did,     \* what the invocation has done
    call     \* a call of a function on its own: its arguments and result

vars ==
    <<pods, eps, cfgs, health, now, pc, req, pod, todo, sib, res, exit, did,
      call>>

\* What no step of the reconciler or of its environment changes.
env == <<eps, cfgs, call>>

NoCall == [op |-> "none"]

Init ==
    /\ \E present \in SUBSET OptionalPods, deleting \in BOOLEAN :
         pods = [n \in PodNames |->
                   StoredPod(n, n \notin OptionalPods \/ n \in present,
                             n = Eg0 /\ n \in present /\ deleting)]
    /\ cfgs \in SUBSET ServiceKeys
    /\ eps \in [EpsKeys -> {NoSlice, PartialSlice, FullSlice}]
    /\ \A l \in EpsKeys : eps[l] \in SliceChoices(l)
    /\ \A l \in EpsKeys :
         (\A k \in cfgs : epsLabels(k) # l) => eps[l] = NoSlice
    /\ health = [n \in HealthPods |-> "200"]
    /\ now = 0
    /\ pc = [w \in Workers |-> "idle"]
    /\ req = [w \in Workers |-> <<>>]
    /\ pod = [w \in Workers |-> NoPod]
    /\ todo = [w \in Workers |-> {}]
    /\ sib = [w \in Workers |-> <<>>]
    /\ res = [w \in Workers |-> NoResult]
    /\ exit = [w \in Workers |-> ""]
    /\ did = [w \in Workers |-> Fresh]
    /\ call = NoCall

\* ------------------------------------------------------- the code's decisions

\* apierrors.IsNotFound(err) after er.Get of the requested Pod.
IsNotFoundNever(p) == FALSE

IsNotFound(p) == ~p.exists

\* pod.DeletionTimestamp.IsZero()
DeletionTimestampIsZeroAlways(p) == TRUE

DeletionTimestampIsZero(p) == ~p.DeletionTimestamp

\* The three nested loops over eps.Endpoints, ep.Addresses and
\* pod.Status.PodIPs: found.
MembershipAlways(endpoints, podIPs) == TRUE

MembershipFound(endpoints, podIPs) ==
    \E i \in 1..Len(endpoints) :
      \E j \in 1..Len(endpoints[i].Addresses) :
        \E k \in 1..Len(podIPs) :
          EqualFold(podIPs[k], endpoints[i].Addresses[j])

\* xslices.IndexFunc(pod.Status.Conditions, Type == "tailscale.com/egress-services")
IndexFuncNever(conds) == 0 - 1

IndexFunc(conds) ==
    LET hits == {i \in 1..Len(conds) : conds[i].Type = EgressCondType}
    IN  IF hits = {} THEN 0 - 1
        ELSE (CHOOSE i \in hits : \A j \in hits : i <= j) - 1

\* idx != -1
ConditionExistsNever(conds) == FALSE

ConditionExists(conds) == IndexFunc(conds) # 0 - 1

\* The condition Reconcile appends.
NewConditionFalse(t) ==
    [Type |-> EgressCondType, Status |-> "False", LastTransitionTime |-> t]

NewCondition(t) ==
    [Type |-> EgressCondType, Status |-> "True", LastTransitionTime |-> t]

\* pod.Status.Conditions = append(pod.Status.Conditions, ...)
WithOnlyCondition(p, t) == [p EXCEPT !.Conditions = <<NewCondition(t)>>]

WithCondition(p, t) == [p EXCEPT !.Conditions = Append(@, NewCondition(t))]

\* previousReady: ordinal, next.
NextOrdinal(name, pgName) ==
    LET a == Atoi(CutPrefix(name, pgName))
    IN  [err |-> ~a.ok, next |-> a.val + 1]

\* previousReady: fmt.Sprintf("%s-%d", name, next), the Pod it fetches.
NextPodName(name, next) == name \o <<"-">> \o Itoa(next)

\* previousReady: the verdict on the health check's answer.
HealthyAlways(answer) == TRUE

Healthy(answer) == answer = "200"

\* The store's check of a status update against the stored object.
StaleWrite(stored, sent) ==
    \/ ~stored.exists
    \/ stored.ResourceVersion # sent.ResourceVersion

\* egressSvcsConfigs: the services configured for the ProxyGroup, or an error.
egressSvcsConfigs(fails) ==
    IF fails THEN [err |-> TRUE, cfgs |-> {}]
    ELSE [err |-> FALSE, cfgs |-> cfgs]

\* getSingleObject: the one EndpointSlice with the labels, a not-found error,
\* or another error.
getSingleObject(labels, fails) ==
    IF fails THEN [err |-> "error", obj |-> NoSlice]
    ELSE IF ~eps[labels].exists THEN [err |-> "notFound", obj |-> NoSlice]
    ELSE [err |-> "nil", obj |-> eps[labels]]

\* ------------------------------------------------------------------ actions

\* A return statement of Reconcile.
Returns(w, r, e) ==
    /\ pc' = [pc EXCEPT ![w] = "done"]
    /\ res' = [res EXCEPT ![w] = r]
    /\ exit' = [exit EXCEPT ![w] = e]

Goes(w, to) ==
    /\ pc' = [pc EXCEPT ![w] = to]
    /\ UNCHANGED <<res, exit>>

Did(w, what) == did' = [did EXCEPT ![w] = what]

\* Reconcile up to er.Get(ctx, req.NamespacedName, pod) and the deletion check.
Fetch(w, n) ==
    /\ req' = [req EXCEPT ![w] = n]
    /\ \E fails \in BOOLEAN :
         IF fails
         THEN /\ Returns(w, Failure, "getErr")
              /\ Did(w, [did[w] EXCEPT !.fault = TRUE])
              /\ UNCHANGED pod
         ELSE /\ Did(w, [did[w] EXCEPT
                           !.had = \E i \in 1..Len(pods[n].Conditions) :
                                     pods[n].Conditions[i].Type = EgressCondType])
              /\ IF IsNotFound(pods[n])
                 THEN Returns(w, Success, "notFound") /\ UNCHANGED pod
                 ELSE IF ~DeletionTimestampIsZero(pods[n])
                 THEN Returns(w, Success, "deleting") /\ UNCHANGED pod
                 ELSE Goes(w, "cfgs") /\ pod' = [pod EXCEPT ![w] = pods[n]]
    /\ UNCHANGED <<pods, env, health, now, todo, sib>>

\* The scheduler delivers a request for the Pod n.
GetPod(w, n) ==
    /\ pc[w] = "idle"
    /\ Fetch(w, n)

\* egressSvcsConfigs(ctx, er.Client, proxyGroupName, er.tsNamespace)
GetConfigs(w) ==
    /\ pc[w] = "cfgs"
    /\ \E fails \in BOOLEAN :
         LET got == egressSvcsConfigs(fails)
         IN  IF got.err
             THEN /\ Returns(w, Failure, "cfgErr")
                  /\ Did(w, [did[w] EXCEPT !.cfg = TRUE, !.fault = TRUE])
                  /\ UNCHANGED todo
             ELSE /\ Goes(w, "loop")
                  /\ Did(w, [did[w] EXCEPT !.cfg = TRUE])
                  /\ todo' = [todo EXCEPT ![w] = got.cfgs]
    /\ UNCHANGED <<pods, env, health, now, req, pod, sib>>

\* One iteration of "for name := range *cfgs", in the order the map yields.
CheckService(w, key) ==
    /\ pc[w] = "loop"
    /\ key \in todo[w]
    /\ \E fails \in BOOLEAN :
         LET got == getSingleObject(epsLabels(key), fails)
         IN  /\ Did(w, [did[w] EXCEPT !.eps = TRUE, !.fault = fails])
             /\ IF DecodeAborts(extNsNameFromClusterSvcName(key))
                THEN Returns(w, Failure, "decodeErr") /\ UNCHANGED todo
                ELSE IF got.err = "notFound"
                THEN Returns(w, Success, "epsNotFound") /\ UNCHANGED todo
                ELSE IF got.err # "nil"
                THEN Returns(w, Failure, "epsErr") /\ UNCHANGED todo
                ELSE IF ~MembershipFound(got.obj.Endpoints, pod[w].PodIPs)
                THEN Returns(w, Success, "notRouted") /\ UNCHANGED todo
                ELSE /\ Goes(w, "loop")
                     /\ todo' = [todo EXCEPT ![w] = @ \ {key}]
    /\ UNCHANGED <<pods, env, health, now, req, pod, sib>>

\* After the loop: the check for the condition, then previousReady up to
\* er.Get of the next Pod.
CheckPrevious(w) ==
    /\ pc[w] = "loop"
    /\ todo[w] = {}
    /\ IF ConditionExists(pod[w].Conditions)
       THEN Returns(w, Success, "condExists") /\ UNCHANGED <<sib, did>>
       ELSE LET o    == NextOrdinal(pod[w].Name, pod[w].ParentName)
                name == NextPodName(pod[w].Name, o.next)
            IN  IF o.err
                THEN Returns(w, Failure, "atoiErr") /\ UNCHANGED <<sib, did>>
                ELSE \E fails \in BOOLEAN :
                       /\ Did(w, [did[w] EXCEPT !.sibGet = TRUE,
                                                !.fault = @ \/ fails])
                       /\ sib' = [sib EXCEPT ![w] = name]
                       /\ IF fails \/ name \notin PodNames \/ ~pods[name].exists
                          THEN Goes(w, "update")
                          ELSE Goes(w, "probe")
    /\ UNCHANGED <<pods, env, health, now, req, pod, todo>>

\* previousReady: http.Get of the next Pod's health check and the verdict.
Probe(w) ==
    /\ pc[w] = "probe"
    /\ Did(w, [did[w] EXCEPT !.probe = TRUE])
    /\ IF Healthy(health[sib[w]])
       THEN Goes(w, "update")
       ELSE Returns(w, Requeue, "notReady")
    /\ UNCHANGED <<pods, env, health, now, req, pod, todo, sib>>

\* The append of the condition and er.Status().Update(ctx, pod).  The store
\* refuses a stale update; an update it accepts may still be reported as
\* failed to the caller ("lost"), and an update may fail outright ("err").
UpdateStatus(w) ==
    /\ pc[w] = "update"
    /\ LET n    == pod[w].Name
           sent == WithCondition(pod[w], now)
           written == [pods EXCEPT ![n].Conditions = sent.Conditions,
                                   ![n].ResourceVersion = @ + 1]
       IN  /\ pod' = [pod EXCEPT ![w] = sent]
           /\ IF StaleWrite(pods[n], sent)
              THEN /\ UNCHANGED pods
                   /\ Did(w, [did[w] EXCEPT !.update = TRUE])
                   /\ Returns(w, Failure, "updateErr")
              ELSE \E answer \in {"ok", "lost", "err"} :
                     /\ pods' = IF answer = "err" THEN pods ELSE written
                     /\ Did(w, [did[w] EXCEPT
                                  !.update = TRUE,
                                  !.applied = answer # "err",
                                  !.fault = @ \/ answer # "ok"])
                     /\ IF answer = "ok"
                        THEN Returns(w, Success, "ready")
                        ELSE Returns(w, Failure, "updateErr")
    /\ UNCHANGED <<env, health, now, req, todo, sib>>

\* The scheduler is done with the invocation.
Forget(w) ==
    /\ pc[w] = "done"
    /\ pc' = [pc EXCEPT ![w] = "idle"]
    /\ req' = [req EXCEPT ![w] = <<>>]
    /\ pod' = [pod EXCEPT ![w] = NoPod]
    /\ todo' = [todo EXCEPT ![w] = {}]
    /\ sib' = [sib EXCEPT ![w] = <<>>]
    /\ res' = [res EXCEPT ![w] = NoResult]
    /\ exit' = [exit EXCEPT ![w] = ""]
    /\ did' = [did EXCEPT ![w] = Fresh]
    /\ UNCHANGED <<pods, env, health, now>>

\* The scheduler abandons an invocation in flight (for instance on shutdown).
Abandon(w) ==
    /\ pc[w] \notin {"idle", "done"}
    /\ pc' = [pc EXCEPT ![w] = "idle"]
    /\ req' = [req EXCEPT ![w] = <<>>]
    /\ pod' = [pod EXCEPT ![w] = NoPod]
    /\ todo' = [todo EXCEPT ![w] = {}]
    /\ sib' = [sib EXCEPT ![w] = <<>>]
    /\ res' = [res EXCEPT ![w] = NoResult]
    /\ exit' = [exit EXCEPT ![w] = ""]
    /\ did' = [did EXCEPT ![w] = Fresh]
    /\ UNCHANGED <<pods, env, health, now>>

\* The environment: a stored Pod's health check changes its answer (between
\* invocations), and time passes.
HealthChange(n, v) ==
    /\ \A w \in Workers : pc[w] \in {"idle", "queued"}
    /\ pods[n].exists
    /\ health[n] # v
    /\ health' = [health EXCEPT ![n] = v]
    /\ UNCHANGED <<pods, env, now, pc, req, pod, todo, sib, res, exit, did>>

Tick ==
    /\ now < MaxClock
    /\ now' = now + 1
    /\ UNCHANGED <<pods, env, health, pc, req, pod, todo, sib, res, exit, did>>

Reconcile(w) ==
    \/ \E n \in ReqNames : GetPod(w, n)
    \/ GetConfigs(w)
    \/ \E key \in ServiceKeys : CheckService(w, key)
    \/ CheckPrevious(w)
    \/ Probe(w)
    \/ UpdateStatus(w)
    \/ Forget(w)
    \/ Abandon(w)

Environment ==
    \/ \E n \in HealthPods, v \in HealthValues : HealthChange(n, v)
    \/ Tick

\* One invocation at a time.
Next == Reconcile("w1") \/ Environment

Spec == Init /\ [][Next]_vars

\* Invocations in parallel, for the same or for different Pods, with one
\* configured service and without the Pod eg-1 (which no invocation reads).
InitConc == Init /\ cfgs = {KeyA} /\ ~pods[Eg1].exists

NextConc == (\E w \in Workers : Reconcile(w)) \/ Environment

SpecConc == InitConc /\ [][NextConc]_vars

\* The scheduler's handling of a requeue request: the request goes back on the
\* queue, and is delivered again without any new event.
Requeued(w) ==
    /\ pc[w] = "done"
    /\ res[w].requeue
    /\ pc' = [pc EXCEPT ![w] = "queued"]
    /\ pod' = [pod EXCEPT ![w] = NoPod]
    /\ todo' = [todo EXCEPT ![w] = {}]
    /\ sib' = [sib EXCEPT ![w] = <<>>]
    /\ res' = [res EXCEPT ![w] = NoResult]
    /\ exit' = [exit EXCEPT ![w] = ""]
    /\ did' = [did EXCEPT ![w] = Fresh]
    /\ UNCHANGED <<pods, env, health, now, req>>

Redeliver(w) ==
    /\ pc[w] = "queued"
    /\ Fetch(w, req[w])

\* No backing-store call has failed.
NoFault == \A w \in Workers : ~did[w].fault

\* The steps of an invocation once it is delivered, and its redelivery after
\* a requeue request, all store calls succeeding.
Progress(w) ==
    /\ \/ GetConfigs(w)
       \/ \E key \in ServiceKeys : CheckService(w, key)
       \/ CheckPrevious(w)
       \/ Probe(w)
       \/ UpdateStatus(w)
       \/ Requeued(w)
       \/ Redeliver(w)
    /\ NoFault'

\* The instance eg-0, stored, not being deleted and routed for every
\* configured service.
InitLive ==
    /\ Init
    /\ pods[Eg0].exists
    /\ ~pods[Eg0].DeletionTimestamp
    /\ \A key \in cfgs : eps[epsLabels(key)] = FullSlice

NextLive ==
    \/ GetPod("w1", Eg0) /\ NoFault'
    \/ Progress("w1")
    \/ Forget("w1") /\ ~res["w1"].requeue
    \/ Environment

\* The scheduler runs a delivered invocation to its end and delivers a
\* requeued request again.
SpecLive == InitLive /\ [][NextLive]_vars /\ WF_vars(Progress("w1"))

\* The functions called on their own, each on every input of a bounded set.
Addrs == {<<"f", "a">>, <<"F", "A">>, <<"f", "b">>}

\* The lists of at most two addresses.
AddressLists ==
    {<<>>} \cup {<<a>> : a \in Addrs} \cup {<<a, b>> : a \in Addrs, b \in Addrs}

EndpointLists ==
    UNION {[1..m -> {[Addresses |-> l] : l \in AddressLists}] :
             m \in 0..MaxEndpoints}

reconciler ==
    <<pods, eps, cfgs, health, now, pc, req, pod, todo, sib, res, exit, did>>

CallCompare(x, y) ==
    /\ call = NoCall
    /\ call' = [op |-> "Compare", x |-> x, y |-> y,
                result |-> Compare(x, y), mirrored |-> Compare(y, x)]
    /\ UNCHANGED reconciler

CallSelect(c, a, b) ==
    /\ call = NoCall
    /\ call' = [op |-> "Select", condExpr |-> c, trueVal |-> a,
                falseVal |-> b, result |-> Select(c, a, b)]
    /\ UNCHANGED reconciler

CallMembership(endpoints, podIPs) ==
    /\ call = NoCall
    /\ call' = [op |-> "Membership", endpoints |-> endpoints,
                podIPs |-> podIPs,
                result |-> MembershipFound(endpoints, podIPs)]
    /\ UNCHANGED reconciler

CallReturns ==
    /\ call # NoCall
    /\ call' = NoCall
    /\ UNCHANGED reconciler

InitPure ==
    /\ Init
    /\ cfgs = {}
    /\ \A n \in PodNames : pods[n].exists /\ ~pods[n].DeletionTimestamp

NextPure ==
    \/ \E x \in BOOLEAN, y \in BOOLEAN : CallCompare(x, y)
    \/ \E c \in BOOLEAN, a \in 0..MaxVal, b \in 0..MaxVal : CallSelect(c, a, b)
    \/ \E e \in EndpointLists, i \in AddressLists : CallMembership(e, i)
    \/ CallReturns

SpecPure == InitPure /\ [][NextPure]_vars

\* ------------------------------------------------------------- the properties

Done(w) == pc[w] = "done"

\* The name is <base>-<non-negative integer>.
IsOrdinalName(n, base) ==
    LET stem == base \o <<"-">>
    IN  /\ HasPrefix(n, stem)
        /\ Len(n) > Len(stem)
        /\ \A i \in (Len(stem) + 1)..Len(n) : IsDigit(n[i])

\* The position i of the instance <base>-<i>.
Position(n, base) == DigitsValue(SubSeq(n, Len(base) + 2, Len(n)))

\* The instance at position i+1: <base>-<i+1>.
SiblingName(n, base) == base \o <<"-">> \o NatToDigits(Position(n, base) + 1)

FoldString(a) == [i \in 1..Len(a) |-> FoldChar(a[i])]

\* The slice's endpoints list one of the addresses, ignoring case.
Listed(slice, ips) ==
    LET listed == UNION { {FoldString(slice.Endpoints[i].Addresses[j]) :
                             j \in 1..Len(slice.Endpoints[i].Addresses)} :
                          i \in 1..Len(slice.Endpoints) }
    IN  \E k \in 1..Len(ips) : FoldString(ips[k]) \in listed

ReadinessConditions(conds) ==
    SelectSeq(conds, LAMBDA c : c.Type = EgressCondType)

\* The requested instance is stored and not being deleted.
Live(w) ==
    /\ pods[req[w]].exists
    /\ ~pods[req[w]].DeletionTimestamp

\* The instance's address is in the routing-membership record of every
\* configured service.
RoutedEverywhere(w) ==
    \A key \in cfgs :
      /\ eps[epsLabels(key)].exists
      /\ Listed(eps[epsLabels(key)], pods[req[w]].PodIPs)

\* A finished invocation for a live instance that passed every membership
\* gate and carried no readiness condition, with no backing-store failure.
GatesPassed(w) ==
    /\ Done(w)
    /\ Live(w)
    /\ RoutedEverywhere(w)
    /\ ~did[w].had
    /\ ~did[w].fault

\* C1 (predecessor gating): a finished invocation for the instance B-i that
\* passed every gate, whose sibling B-(i+1) is stored and does not answer 200,
\* returned success with a requeue and made no status update.
C1_PredecessorGating ==
    \A w \in Workers :
      ( /\ GatesPassed(w)
        /\ IsOrdinalName(req[w], PgName)
        /\ SiblingName(req[w], PgName) \in HealthPods
        /\ pods[SiblingName(req[w], PgName)].exists
        /\ health[SiblingName(req[w], PgName)] # "200" )
      => (res[w] = Requeue /\ ~did[w].update)

\* C2 (all gates pass implies ready): a finished invocation for the instance
\* B-i that passed every gate, with no instance B-(i+1) in the store, made one
\* status update that appended the readiness condition with state true and
\* returned success without requeue.
C2_AllGatesPassImpliesReady ==
    \A w \in Workers :
      ( /\ GatesPassed(w)
        /\ IsOrdinalName(req[w], PgName)
        /\ ~pods[SiblingName(req[w], PgName)].exists )
      => /\ res[w] = Success
         /\ did[w].applied
         /\ Len(ReadinessConditions(pods[req[w]].Conditions)) = 1
         /\ ReadinessConditions(pods[req[w]].Conditions)[1].Status = "True"

\* C3 (membership gating): a finished invocation for a stored instance whose
\* address is missing from the endpoint list of the record of at least one
\* configured service made no status update, and unless a backing-store call
\* failed it returned success without requeue.
C3_MembershipGating ==
    \A w \in Workers :
      ( /\ Done(w)
        /\ pods[req[w]].exists
        /\ \E key \in cfgs :
             /\ eps[epsLabels(key)].exists
             /\ ~Listed(eps[epsLabels(key)], pods[req[w]].PodIPs) )
      => /\ ~did[w].update
         /\ ~did[w].applied
         /\ ~did[w].fault => res[w] = Success

\* C3's case: the address is missing from one record and listed in another,
\* and the instance (eg-0, with an unhealthy eg-0-1 stored) was turned away.
C3_Witness ==
    \E w \in Workers :
      /\ Done(w)
      /\ req[w] = Eg0
      /\ Live(w)
      /\ \E key \in cfgs : eps[epsLabels(key)] = PartialSlice
      /\ \E key \in cfgs : eps[epsLabels(key)] = FullSlice
      /\ pods[Eg01].exists
      /\ health[Eg01] = "503"
      /\ did[w].eps
      /\ res[w] = Success
      /\ ~did[w].update

\* C4 (idempotence): a finished invocation for an instance that carried a
\* condition of the readiness kind when it was read made no status update, no
\* fetch of the next Pod and no health probe, asked for no requeue, and unless
\* a backing-store call failed it returned success.
C4_Idempotence ==
    \A w \in Workers :
      (Done(w) /\ Live(w) /\ did[w].had)
      => /\ ~did[w].update
         /\ ~did[w].sibGet
         /\ ~did[w].probe
         /\ ~res[w].requeue
         /\ ~did[w].fault => res[w] = Success

\* C4's case: a later invocation for an instance that already carries the
\* condition passed the membership gates and returned at the guard.
C4_Witness ==
    \E w \in Workers :
      /\ Done(w)
      /\ did[w].had
      /\ did[w].eps
      /\ RoutedEverywhere(w)
      /\ ~did[w].fault
      /\ pods[req[w]].ResourceVersion = 1
      /\ res[w] = Success

\* C5 (write-once): every step leaves each stored instance with at most one
\* condition of the readiness kind, and leaves a readiness condition that is
\* present with state true as it is (not removed, duplicated, re-stamped or
\* flipped).
C5_WriteOnce ==
    [][\A n \in PodNames :
         /\ Len(ReadinessConditions(pods'[n].Conditions)) <= 1
         /\ (\E i \in 1..Len(pods[n].Conditions) :
               /\ pods[n].Conditions[i].Type = EgressCondType
               /\ pods[n].Conditions[i].Status = "True")
            => ReadinessConditions(pods'[n].Conditions)
                 = ReadinessConditions(pods[n].Conditions)]_vars

\* C5's case: an invocation finished for an instance whose condition was
\* written at an earlier time than now, and the condition is as it was.
C5_Witness ==
    \E w \in Workers :
      /\ Done(w)
      /\ did[w].had
      /\ Len(ReadinessConditions(pods[req[w]].Conditions)) = 1
      /\ ReadinessConditions(pods[req[w]].Conditions)[1].Status = "True"
      /\ ReadinessConditions(pods[req[w]].Conditions)[1].LastTransitionTime < now

\* C6 (deletion guard): an instance whose deletion marker is set carries no
\* readiness condition, and a finished invocation for it consulted neither the
\* configuration nor the prober, made no status update and returned success
\* without requeue.
C6_DeletionGuard ==
    /\ \A n \in PodNames :
         pods[n].DeletionTimestamp
         => ReadinessConditions(pods[n].Conditions) = <<>>
    /\ \A w \in Workers :
         (Done(w) /\ pods[req[w]].exists /\ pods[req[w]].DeletionTimestamp)
         => /\ ~did[w].cfg
            /\ ~did[w].eps
            /\ ~did[w].sibGet
            /\ ~did[w].probe
            /\ ~did[w].update
            /\ ~did[w].fault => res[w] = Success

\* C6's case: the instance being deleted is routed for every configured
\* service and has no next Pod, and the invocation returned success.
C6_Witness ==
    \E w \in Workers :
      /\ Done(w)
      /\ pods[req[w]].exists
      /\ pods[req[w]].DeletionTimestamp
      /\ cfgs # {}
      /\ RoutedEverywhere(w)
      /\ ~pods[Eg1].exists
      /\ ~pods[Eg01].exists
      /\ res[w] = Success

\* C7 (malformed name): a finished invocation that passed every gate for an
\* instance whose name is not <group base name>-<non-negative integer>
\* returned an error and made no status update.
C7_MalformedName ==
    \A w \in Workers :
      (GatesPassed(w) /\ ~IsOrdinalName(req[w], PgName))
      => (res[w].err /\ ~did[w].update)

\* C8 (hard-error propagation): a finished invocation in which a
\* backing-store call failed other than by not-found returned an error, and
\* unless the failed call was the status update it made no status update.
C8_HardErrorPropagation ==
    \A w \in Workers :
      (Done(w) /\ did[w].fault)
      => /\ res[w] = Failure
         /\ exit[w] # "updateErr" => ~did[w].update

\* C9 (tri-state outcome): a finished invocation asked for a requeue exactly
\* when the prober ran and got an answer other than 200; it returned success
\* without requeue at each soft return; and a requeue came with neither an
\* error nor a status update.
C9_TriState ==
    \A w \in Workers :
      Done(w)
      => /\ res[w].requeue <=> (did[w].probe /\ health[sib[w]] # "200")
         /\ exit[w] \in {"notFound", "deleting", "epsNotFound", "notRouted",
                         "condExists"}
            => res[w] = Success
         /\ ~(res[w].requeue /\ res[w].err)
         /\ res[w].requeue => (~did[w].update /\ ~did[w].applied)

\* C9's case: the prober ran, the next Pod answered 503, and the invocation
\* asked for a requeue.
C9_Witness ==
    \E w \in Workers :
      /\ Done(w)
      /\ did[w].probe
      /\ health[sib[w]] = "503"
      /\ res[w] = Requeue

\* C10 (duplicate and interleaved triggers): under any interleaving of the
\* invocations, each stored instance carries at most one readiness condition
\* and has taken at most one status update, and its stored state is either the
\* initial one or the one a single successful invocation leaves: the initial
\* conditions followed by one readiness condition with state true.
C10_InterleavedTriggers ==
    \A n \in PodNames :
      /\ Len(ReadinessConditions(pods[n].Conditions)) <= 1
      /\ pods[n].ResourceVersion \in {0, 1}
      /\ pods[n].ResourceVersion = 0 => pods[n].Conditions = <<ReadyCond>>
      /\ pods[n].ResourceVersion = 1 =>
           \E t \in 0..MaxClock :
             pods[n].Conditions =
               <<ReadyCond,
                 [Type |-> EgressCondType, Status |-> "True",
                  LastTransitionTime |-> t]>>

\* C10's case: two invocations for the same instance both read it without the
\* condition and both sent a status update; the store took one and refused
\* the other.
C10_Witness ==
    \E w, v \in Workers :
      /\ w # v
      /\ Done(w) /\ Done(v)
      /\ req[w] = req[v]
      /\ ~did[w].had /\ ~did[v].had
      /\ did[w].update /\ did[v].update
      /\ did[w].applied /\ ~did[v].applied
      /\ res[w] = Success
      /\ res[v] = Failure /\ ~did[v].fault
      /\ pods[req[w]].ResourceVersion = 1


\* C11 (missing instance is terminal): a finished invocation for an instance
\* that is not in the store, whose fetch did not fail otherwise, returned
\* success without requeue and made no further read, probe or write.
C11_MissingInstance ==
    \A w \in Workers :
      (Done(w) /\ ~pods[req[w]].exists /\ ~did[w].fault)
      => /\ res[w] = Success
         /\ ~did[w].cfg
         /\ ~did[w].eps
         /\ ~did[w].sibGet
         /\ ~did[w].probe
         /\ ~did[w].update
         /\ pods[req[w]].ResourceVersion = 0

\* C11's case: the requested instance eg-0 is not stored, services are
\* configured, and the invocation returned success.
C11_Witness ==
    \E w \in Workers :
      /\ Done(w)
      /\ req[w] = Eg0
      /\ ~pods[Eg0].exists
      /\ cfgs # {}
      /\ ~did[w].fault
      /\ res[w] = Success


\* C12 (bools.Compare orders false before true): a call Compare(x, y) returned
\* -1 for x false and y true, +1 for x true and y false, 0 for x = y, and the
\* negation of what Compare(y, x) returns.
C12_Compare ==
    call.op = "Compare"
    => /\ (~call.x /\ call.y) => call.result = 0 - 1
       /\ (call.x /\ ~call.y) => call.result = 1
       /\ (call.x = call.y) => call.result = 0
       /\ call.result = 0 - call.mirrored

\* C12's case: Compare(false, true) was called and returned -1.
C12_Witness ==
    /\ call.op = "Compare"
    /\ ~call.x
    /\ call.y
    /\ call.result = 0 - 1

\* C13 (bools.Select is a ternary operator): a call Select(c, a, b) returned a
\* for c true and b for c false.
C13_Select ==
    call.op = "Select"
    => /\ call.condExpr => call.result = call.trueVal
       /\ ~call.condExpr => call.result = call.falseVal

\* C13's case: Select(false, a, b) was called with a # b and returned b.
C13_Witness ==
    /\ call.op = "Select"
    /\ ~call.condExpr
    /\ call.trueVal # call.falseVal
    /\ call.result = call.falseVal


\* C14 (sibling identity): in a finished invocation for the instance
\* <base>-<i> that ran previousReady, the position parsed from the name is i
\* and the Pod fetched (and probed, when found) is the one named <base>-<i+1>.
C14_SiblingIdentity ==
    \A w \in Workers :
      (Done(w) /\ did[w].sibGet /\ IsOrdinalName(req[w], PgName))
      => /\ NextOrdinal(req[w], PgName).next - 1 = Position(req[w], PgName)
         /\ sib[w] = SiblingName(req[w], PgName)


\* C15 (membership checker result): a call of the membership check on an
\* endpoint list and a list of instance addresses returned true exactly when
\* some endpoint's address equals, ignoring case, some instance address; with
\* no instance address or no endpoint it returned false.
C15_MembershipResult ==
    call.op = "Membership"
    => /\ call.result
            <=> Listed([Endpoints |-> call.endpoints], call.podIPs)
       /\ (call.podIPs = <<>> \/ call.endpoints = <<>>) => ~call.result

\* C15's case: two endpoints and two instance addresses; no address is spelt
\* as an instance address is, the first endpoint's addresses match none, and
\* the last address of the second endpoint matches one ignoring case.
C15_Witness ==
    /\ call.op = "Membership"
    /\ call.result
    /\ Len(call.endpoints) = 2
    /\ Len(call.podIPs) = 2
    /\ \A i \in 1..2 : \A j \in 1..Len(call.endpoints[i].Addresses) :
         \A k \in 1..2 : call.endpoints[i].Addresses[j] # call.podIPs[k]
    /\ call.endpoints[1].Addresses # <<>>
    /\ ~Listed([Endpoints |-> <<call.endpoints[1]>>], call.podIPs)
    /\ Len(call.endpoints[2].Addresses) = 2
    /\ ~Listed([Endpoints |-> <<[Addresses |->
                                   <<call.endpoints[2].Addresses[1]>>]>>],
               call.podIPs)


\* C16 (retry-safe write): an invocation whose status update failed returned
\* an error; when that update was applied in the store all the same, an
\* invocation that reads the instance afterwards (a retry) sends no status
\* update and, unless a backing-store call fails, returns success; and no
\* instance carries more than one readiness condition.
C16_RetrySafeWrite ==
    /\ \A w \in Workers :
         (Done(w) /\ exit[w] = "updateErr") => res[w] = Failure
    /\ \A w, v \in Workers :
         ( /\ w # v
           /\ Done(w) /\ exit[w] = "updateErr" /\ did[w].applied
           /\ req[v] = req[w]
           /\ did[v].had )
         => /\ ~did[v].update
            /\ (Done(v) /\ ~did[v].fault) => res[v] = Success
    /\ \A n \in PodNames : Len(ReadinessConditions(pods[n].Conditions)) <= 1

\* C16's case: one invocation's update was applied and reported as failed, and
\* a later invocation for the same instance returned at the check for the
\* condition.
C16_Witness ==
    \E w, v \in Workers :
      /\ w # v
      /\ Done(w) /\ exit[w] = "updateErr" /\ did[w].applied
      /\ res[w] = Failure
      /\ Done(v) /\ req[v] = req[w]
      /\ did[v].had
      /\ exit[v] = "condExists"
      /\ pods[req[v]].ResourceVersion = 1


\* C17 (frame): no step changes the routing-membership records or the
\* configuration, and a step that changes a stored instance is the status
\* update of an invocation for that very instance, which appends one readiness
\* condition with state true to its conditions and changes nothing else of it
\* but the version the store keeps; so an invocation that returns or is
\* abandoned before that step leaves the store as it was.
C17_Frame ==
    [][/\ eps' = eps
       /\ cfgs' = cfgs
       /\ \A n \in PodNames :
            pods'[n] # pods[n]
            => \E w \in Workers :
                 /\ pc[w] = "update"
                 /\ pc'[w] = "done"
                 /\ req[w] = n
                 /\ pods'[n] =
                      [pods[n] EXCEPT
                         !.Conditions =
                            Append(@, [Type |-> EgressCondType,
                                       Status |-> "True",
                                       LastTransitionTime |-> now]),
                         !.ResourceVersion = @ + 1]]_vars

\* C17's case: an invocation probed the next Pod it found, wrote the
\* condition on its own instance, and the probed Pod is as it was.
C17_Witness ==
    \E w \in Workers :
      /\ Done(w)
      /\ did[w].probe
      /\ did[w].applied
      /\ pods[req[w]].ResourceVersion = 1
      /\ pods[sib[w]].exists
      /\ pods[sib[w]].ResourceVersion = 0
      /\ pods[sib[w]].Conditions = <<ReadyCond>>


\* C18 (eventual readiness through requeue): if the sibling eg-1 of eg-0 is
\* unhealthy while a request for eg-0 is delivered or queued, and from some
\* time on eg-1 stays healthy or absent, then the readiness condition is
\* eventually written on eg-0 (routed everywhere, not deleted, all store calls
\* succeeding, requeue requests honoured), no new request being needed.
C18_EventualReadiness ==
    (<>[](~pods[Eg1].exists \/ health[Eg1] = "200"))
    => [](/\ pc["w1"] # "idle"
          /\ pods[Eg1].exists
          /\ health[Eg1] # "200"
          => <>(ReadinessConditions(pods[Eg0].Conditions) # <<>>))


\* C19 (malformed service key tolerated): a finished invocation for a live
\* instance whose configuration holds a key that does not decode returns an
\* error only for a failed store call or an unparsable position, and gets
\* past the membership loop only if the instance's address is listed for
\* every configured service, the undecodable one (selected by empty labels)
\* included.
C19_MalformedKeyTolerated ==
    \A w \in Workers :
      (/\ Done(w)
       /\ Live(w)
       /\ did[w].cfg
       /\ \E key \in cfgs : extNsNameFromClusterSvcName(key).err)
      => /\ res[w].err => (did[w].fault \/ exit[w] = "atoiErr")
         /\ (did[w].sibGet \/ exit[w] \in {"condExists", "atoiErr"})
            => RoutedEverywhere(w)

C19_Witness ==
    \E w \in Workers :
      /\ Done(w)
      /\ cfgs = {KeyA, KeyBad}
      /\ eps[epsLabels(KeyBad)] = FullSlice
      /\ eps[epsLabels(KeyA)] = FullSlice
      /\ did[w].eps
      /\ did[w].applied
      /\ res[w] = Success


\* C20 (empty configuration passes vacuously): with no egress service
\* configured, a finished invocation for a live instance that carried no
\* readiness condition, met no store failure and found its predecessor check
\* satisfied (the next Pod fetched, and healthy if probed) returned success
\* after one status write, and the instance carries exactly one readiness
\* condition, with status True, whatever the routing-membership records hold.
C20_EmptyConfiguration ==
    \A w \in Workers :
      (/\ Done(w)
       /\ cfgs = {}
       /\ Live(w)
       /\ ~did[w].had
       /\ ~did[w].fault
       /\ did[w].sibGet
       /\ did[w].probe => health[sib[w]] = "200")
      => /\ res[w] = Success
         /\ did[w].update
         /\ did[w].applied
         /\ ~did[w].eps
         /\ Len(ReadinessConditions(pods[req[w]].Conditions)) = 1
         /\ ReadinessConditions(pods[req[w]].Conditions)[1].Status = "True"

C20_Witness ==
    \E w \in Workers :
      /\ Done(w)
      /\ cfgs = {}
      /\ \A k \in EpsKeys : ~eps[k].exists
      /\ ~did[w].had
      /\ did[w].probe
      /\ did[w].applied
      /\ res[w] = Success
      /\ Len(ReadinessConditions(pods[req[w]].Conditions)) = 1

====
